---- MODULE Spec2Model ----
(***************************************************************************)
(* The BabyAGI agent loop: the zustand store (agentStore.ts), the useAgent *)
(* hook that drives it from a React effect and an interval timer, and the  *)
(* executor calls the hook awaits.                                         *)
(*                                                                         *)
(* One step of the model is one JavaScript task: a store command issued by *)
(* the operator, a run of the hook's effect, a firing of the interval      *)
(* timer (executeAgentIteration up to its await) or the resumption of an   *)
(* awaited executor call (the rest of executeAgentIteration).              *)
(***************************************************************************)
EXTENDS Integers, Sequences, FiniteSets, TLC

VARIABLES
    objective,         \* store.objective
    tasks,             \* store.tasks, in insertion order
    executionLog,      \* store.executionLog
    isRunning,         \* store.isRunning
    isPaused,          \* store.isPaused
    currentIteration,  \* store.currentIteration
    maxIterations,     \* store.maxIterations
    mode,              \* store.mode
    settings,          \* store.settings: apiKey and maxIterations
    sessionId,         \* store.sessionId, the clock reading it was taken from
    agentLoopRef,      \* agentLoopRef.current # null: the interval is set
    effectDeps,        \* <<isRunning, isPaused>> as of the effect's last run
    calls,             \* executeAgentIteration invocations suspended at their await
    now,               \* Date.now()
    nextId             \* the task generator's supply of fresh ids

vars == <<objective, tasks, executionLog, isRunning, isPaused, currentIteration,
          maxIterations, mode, settings, sessionId, agentLoopRef, effectDeps,
          calls, now, nextId>>

----------------------------------------------------------------------------
(* Bounds of the model. *)

\* Task ids the generator can hand out over a whole behaviour.
MaxId == 3
\* Largest value the store's iteration budget is drawn from.
MaxBudget == 3
\* Halts (for budget or for completion) one log may record; the loop is not
\* restarted into a further one.
MaxHalts == 2
\* Clock readings 0 .. MaxClock.
MaxClock == 1
\* Rejected starts the log may record; a further one is not taken.
MaxRejected == 1
\* Largest batch generateInitialTasks returns.
MaxInitial == 2
\* Largest batch a run that starts from a seeded store was seeded with.
MaxBatch == 4
\* Largest batch generateFollowUpTasks returns.
MaxFollowUp == 1
\* Follow-up priorities 1 .. MaxPriority.
MaxPriority == 2

----------------------------------------------------------------------------
(* Values. *)

\* Objectives the operator types: none, and a real one.
Objectives == {"", "Write a blog post"}

\* String.prototype.trim on the objectives above and on a blank one.
Trim(s) == IF s = " " THEN "" ELSE s

\* JavaScript truthiness of a string.
Truthy(s) == s # ""

\* The objective is empty or whitespace only.
Blank(o) == ~Truthy(Trim(o))

\* Task.result when the field was never assigned.
Undefined == "undefined"

\* The text an executor resolves with, and the detail it fails with.
Content == "content"
ErrorDetail == "error detail"

Task(id, priority, dependencies) ==
    [id |-> id, status |-> "pending", priority |-> priority,
     dependencies |-> dependencies, result |-> Undefined]

\* A log entry: its type, the message text, and the number interpolated
\* into the message (0 when the message holds none).
Entry(type, message, n) == [type |-> type, message |-> message, n |-> n]

Ids(ts) == {ts[i].id : i \in 1..Len(ts)}

Count(ts, st) == Cardinality({i \in 1..Len(ts) : ts[i].status = st})

----------------------------------------------------------------------------
(* The store's mutation primitives, as functions of the value they replace. *)

\* { ...task, ...updates }
Merge(task, updates) ==
    [f \in DOMAIN task |-> IF f \in DOMAIN updates THEN updates[f] ELSE task[f]]

\* addTask: tasks: [...state.tasks, task]
addTask(ts, task) == Append(ts, task)

\* A variant that adds a task when no task has that id.
updateTask_Upserts(ts, taskId, updates) ==
    IF taskId \in Ids(ts)
    THEN [i \in 1..Len(ts) |->
            IF ts[i].id = taskId THEN Merge(ts[i], updates) ELSE ts[i]]
    ELSE Append(ts, Merge(Task(taskId, 0, {}), updates))

\* updateTask: a partial merge into the task with that id, if there is one.
updateTask(ts, taskId, updates) ==
    [i \in 1..Len(ts) |-> IF ts[i].id = taskId THEN Merge(ts[i], updates) ELSE ts[i]]

\* completeTask: status 'completed' and the result, on the task with that id.
completeTask(ts, taskId, result) ==
    [i \in 1..Len(ts) |->
        IF ts[i].id = taskId
        THEN Merge(ts[i], [status |-> "completed", result |-> result])
        ELSE ts[i]]

\* A variant that puts the new entry first.
addLog_Prepends(log, entry) == <<entry>> \o log

\* addLog: executionLog: [...state.executionLog, entry]
addLog(log, entry) == Append(log, entry)

\* A variant that counts each start twice.
incrementIteration_ByTwo(n) == n + 2

\* incrementIteration
incrementIteration(n) == n + 1

----------------------------------------------------------------------------
(* The task generator (services/taskGenerator.ts). *)

\* generateInitialTasks: n >= 1 pending tasks with fresh ids, sequential
\* priorities (the first task ranks highest) and no dependencies.
generateInitialTasks(n, firstId) ==
    [i \in 1..n |-> Task(firstId + i - 1, n - i + 1, {})]

\* The dependency sets a follow-up of `completed` may carry: none, or one id
\* other than the completed task's own.
FollowUpDependencies(completed, known) ==
    {{}} \cup {{d} : d \in known \ {completed.id}}

\* generateFollowUpTasks: the batches it may return for a completed task,
\* each of 0 .. MaxFollowUp pending tasks with fresh ids.
generateFollowUpTasks(completed, known, firstId) ==
    UNION { { [i \in 1..k |-> Task(firstId + i - 1, f[i][1], f[i][2])] :
                f \in [1..k -> (1..MaxPriority)
                                  \X FollowUpDependencies(completed, known)] } :
            k \in 0..MaxFollowUp }

\* Insert t behind every task of the sorted sequence s that ranks at least as
\* high: what a stable sort by priority descending does with a later element.
RECURSIVE InsertByPriority(_, _)
InsertByPriority(t, s) ==
    IF s = <<>> THEN <<t>>
    ELSE IF Head(s).priority >= t.priority
         THEN <<Head(s)>> \o InsertByPriority(t, Tail(s))
         ELSE <<t>> \o s

\* prioritizeTasks: a stable sort by priority, highest first.
RECURSIVE prioritizeTasks(_)
prioritizeTasks(ts) ==
    IF ts = <<>> THEN <<>>
    ELSE InsertByPriority(ts[Len(ts)], prioritizeTasks(SubSeq(ts, 1, Len(ts) - 1)))

----------------------------------------------------------------------------
(* Selection (useAgent.ts, executeAgentIteration). *)

\* allTasks.find(t => t.id === depId), as the set of matching positions.
Find(allTasks, depId) == {i \in 1..Len(allTasks) : allTasks[i].id = depId}

\* A variant that counts a dependency only while it is 'pending'.
hasPendingDependencies_OnlyPending(task, allTasks) ==
    \E depId \in task.dependencies :
        \E i \in 1..Len(allTasks) :
            allTasks[i].id = depId /\ allTasks[i].status = "pending"

\* hasPendingDependencies: some dependency names a task of the list that is
\* not completed.  A dependency naming no task of the list does not count.
hasPendingDependencies(task, allTasks) ==
    IF task.dependencies = {} THEN FALSE
    ELSE \E depId \in task.dependencies :
            \E i \in Find(allTasks, depId) :
                /\ i = CHOOSE j \in Find(allTasks, depId) :
                            \A k \in Find(allTasks, depId) : j <= k
                /\ allTasks[i].status # "completed"

\* A variant that takes failed tasks up again.
Eligible_RetriesFailed(t, allTasks) ==
    t.status \in {"pending", "failed"} /\ ~hasPendingDependencies(t, allTasks)

\* t => t.status === 'pending' && !hasPendingDependencies(t, state.tasks)
Eligible(t, allTasks) ==
    t.status = "pending" /\ ~hasPendingDependencies(t, allTasks)

\* sortedTasks.find(...): the positions of sortedTasks that satisfy the test.
EligiblePositions(sortedTasks, allTasks) ==
    {i \in 1..Len(sortedTasks) : Eligible(sortedTasks[i], allTasks)}

\* Whether the find returns a task, and the task it returns.
HasNextTask(allTasks) == EligiblePositions(prioritizeTasks(allTasks), allTasks) # {}

NextTask(allTasks) ==
    LET sortedTasks == prioritizeTasks(allTasks)
        found == EligiblePositions(sortedTasks, allTasks)
    IN  sortedTasks[CHOOSE i \in found : \A j \in found : i <= j]

----------------------------------------------------------------------------
(* executeAgentIteration, up to its await (useAgent.ts).  `state` is the   *)
(* store as the iteration finds it, so the unprimed variables.             *)

BudgetMessage == "Reached maximum iterations"
CompletionMessage == "All tasks completed"

\* The halts the log records; a halting step is taken only below the bound.
Halts(log) ==
    {i \in 1..Len(log) : log[i].message \in {BudgetMessage, CompletionMessage}}

CanHalt == Cardinality(Halts(executionLog)) < MaxHalts

\* if (!state.isRunning || state.isPaused) { stopAgentLoop(); return; }
ShouldStop == ~isRunning \/ isPaused

IterationStops ==
    /\ ShouldStop
    /\ agentLoopRef' = FALSE
    /\ UNCHANGED <<tasks, executionLog, isPaused, currentIteration, calls, nextId>>

\* A variant that halts one iteration early.
BudgetReached_OneEarly == currentIteration + 1 >= maxIterations

\* A variant that halts one iteration late.
BudgetReached_OffByOne == currentIteration > maxIterations

\* if (state.currentIteration >= state.maxIterations)
BudgetReached == currentIteration >= maxIterations

IterationHaltsForBudget ==
    /\ BudgetReached
    /\ CanHalt
    /\ executionLog' = addLog(executionLog,
                              Entry("milestone", BudgetMessage, maxIterations))
    /\ isPaused' = TRUE
    /\ agentLoopRef' = FALSE
    /\ UNCHANGED <<tasks, currentIteration, calls, nextId>>

\* if (state.tasks.length === 0 && state.objective)
ShouldSeed == Len(tasks) = 0 /\ Truthy(objective)

\* generateInitialTasks fails on a blank objective (EmptyObjectiveError):
\* the iteration ends there, its promise rejected, the store as it was.
IterationSeedingFails ==
    /\ ~BudgetReached
    /\ ShouldSeed
    /\ Blank(objective)
    /\ agentLoopRef' = TRUE
    /\ UNCHANGED <<tasks, executionLog, isPaused, currentIteration, calls, nextId>>

IterationSeeds ==
    /\ ~BudgetReached
    /\ ShouldSeed
    /\ ~Blank(objective)
    /\ \E n \in 1..MaxInitial :
        /\ nextId + n - 1 <= MaxId
        /\ tasks' = tasks \o generateInitialTasks(n, nextId)
        /\ nextId' = nextId + n
        /\ executionLog' = addLog(executionLog,
                                  Entry("info", "Generated initial tasks", n))
    /\ agentLoopRef' = TRUE
    /\ UNCHANGED <<isPaused, currentIteration, calls>>

\* A variant that only asks for a completed task.
AllResolved_AnyCompleted(ts) == Count(ts, "completed") > 0

\* allCompleted && completedTasks.length > 0
AllResolved(ts) ==
    /\ \A i \in 1..Len(ts) : ts[i].status \in {"completed", "failed"}
    /\ Count(ts, "completed") > 0

IterationDeclaresCompletion ==
    /\ ~BudgetReached /\ ~ShouldSeed
    /\ ~HasNextTask(tasks)
    /\ AllResolved(tasks)
    /\ CanHalt
    /\ executionLog' = addLog(executionLog, Entry("milestone", CompletionMessage, 0))
    /\ isPaused' = TRUE
    /\ agentLoopRef' = FALSE
    /\ UNCHANGED <<tasks, currentIteration, calls, nextId>>

\* A variant that pauses the loop when it finds nothing to start.
IterationIdles_Stops ==
    /\ ~BudgetReached /\ ~ShouldSeed
    /\ ~HasNextTask(tasks)
    /\ ~AllResolved(tasks)
    /\ isPaused' = TRUE
    /\ agentLoopRef' = FALSE
    /\ UNCHANGED <<tasks, executionLog, currentIteration, calls, nextId>>

IterationIdles ==
    /\ ~BudgetReached /\ ~ShouldSeed
    /\ ~HasNextTask(tasks)
    /\ ~AllResolved(tasks)
    /\ agentLoopRef' = TRUE
    /\ UNCHANGED <<tasks, executionLog, isPaused, currentIteration, calls, nextId>>

\* state.mode === 'ai' && state.settings.apiKey
Executor == IF mode = "ai" /\ Truthy(settings.apiKey) THEN "executeTaskWithAI"
            ELSE "simulateTaskExecution"

\* The invocation as it is suspended at its await: the task it chose, the
\* store snapshot `state` it closed over, the executor it called, and
\* whether the operator has paused or reset since (kept for the claims only).
Call(nextTask) ==
    [task |-> nextTask, tasks |-> tasks, objective |-> objective,
     executor |-> Executor, interrupted |-> FALSE]

IterationStartsTask ==
    /\ ~BudgetReached /\ ~ShouldSeed
    /\ HasNextTask(tasks)
    /\ LET nextTask == NextTask(tasks) IN
        /\ currentIteration' = incrementIteration(currentIteration)
        /\ tasks' = updateTask(tasks, nextTask.id, [status |-> "running"])
        /\ executionLog' =
             addLog(addLog(executionLog, Entry("task", "Starting", 0)),
                    IF Executor = "executeTaskWithAI"
                    THEN Entry("thinking", "AI is thinking", 0)
                    ELSE Entry("info", "Processing task", 0))
        /\ calls' = calls \cup {Call(nextTask)}
    /\ agentLoopRef' = TRUE
    /\ UNCHANGED <<isPaused, nextId>>

\* The iteration once it is past its first check.
IterationProceeds ==
    \/ IterationHaltsForBudget
    \/ IterationSeeds
    \/ IterationSeedingFails
    \/ IterationDeclaresCompletion
    \/ IterationIdles
    \/ IterationStartsTask

----------------------------------------------------------------------------
(* executeAgentIteration, from the await on. `c` is the suspended call; the *)
(* store methods it invokes act on the store as it is now, while            *)
(* state.tasks and state.objective are the snapshot the call closed over.   *)

\* Math.floor((completedCount / totalCount) * 100) over state.tasks; -1
\* stands for the NaN an empty list gives.
Progress(snapshot) ==
    IF Len(snapshot) = 0 THEN -1
    ELSE (Count(snapshot, "completed") * 100) \div Len(snapshot)

\* [25, 50, 75].includes(progress)
IsMilestone(progress) == progress \in {25, 50, 75}

\* The log after the try block ran to its end for call c with `followUps`.
LogAfterSuccess(log, c, followUps) ==
    LET l1 == addLog(addLog(log, Entry("success", "Completed", 0)),
                     Entry("result", "Result", 0))
        l2 == IF Len(followUps) > 0
              THEN addLog(l1, Entry("info", "Generated follow-up task(s)", Len(followUps)))
              ELSE l1
    IN  IF IsMilestone(Progress(c.tasks))
        THEN addLog(l2, Entry("milestone", "Milestone", Progress(c.tasks)))
        ELSE l2

\* The executor resolved with a result: the rest of the try block.
ExecutorResolves(c) ==
    /\ c \in calls
    /\ calls' = calls \ {c}
    /\ \E followUps \in generateFollowUpTasks(c.task, Ids(c.tasks), nextId) :
        /\ followUps = <<>> \/ nextId + Len(followUps) - 1 <= MaxId
        /\ tasks' = completeTask(tasks, c.task.id, Content) \o followUps
        /\ nextId' = nextId + Len(followUps)
        /\ executionLog' = LogAfterSuccess(executionLog, c, followUps)
    /\ UNCHANGED <<objective, isRunning, isPaused, currentIteration, maxIterations,
                   mode, settings, sessionId, agentLoopRef, effectDeps, now>>

\* The update the catch block makes to the task.
FailureUpdate(detail) == [status |-> "failed"]

\* A variant whose catch block also pauses the loop.
ExecutorFails_Pauses(c) ==
    /\ c \in calls
    /\ calls' = calls \ {c}
    /\ tasks' = updateTask(tasks, c.task.id, FailureUpdate(ErrorDetail))
    /\ executionLog' = addLog(executionLog, Entry("error", "Failed", 0))
    /\ isPaused' = TRUE
    /\ UNCHANGED <<objective, isRunning, currentIteration, maxIterations,
                   mode, settings, sessionId, agentLoopRef, effectDeps, now, nextId>>

\* The executor failed (an error response, or a rejected call): the catch block.
ExecutorFails(c) ==
    /\ c \in calls
    /\ calls' = calls \ {c}
    /\ tasks' = updateTask(tasks, c.task.id, FailureUpdate(ErrorDetail))
    /\ executionLog' = addLog(executionLog, Entry("error", "Failed", 0))
    /\ UNCHANGED <<objective, isRunning, isPaused, currentIteration, maxIterations,
                   mode, settings, sessionId, agentLoopRef, effectDeps, now, nextId>>

----------------------------------------------------------------------------
(* The interval timer and the hook's effect (useAgent.ts). *)

\* The interval fires: executeAgentIteration from its start.
TimerStops ==
    /\ agentLoopRef
    /\ IterationStops
    /\ UNCHANGED <<objective, isRunning, maxIterations, mode, settings, sessionId,
                   effectDeps, now>>

TimerTick ==
    /\ agentLoopRef
    /\ ~ShouldStop
    /\ IterationProceeds
    /\ UNCHANGED <<objective, isRunning, maxIterations, mode, settings, sessionId,
                   effectDeps, now>>

\* The effect runs when isRunning or isPaused differs from its last run.
EffectDue == effectDeps # <<isRunning, isPaused>>

\* Cleanup (stopAgentLoop), then startAgentLoop: set the interval and run
\* the first iteration at once.
EffectStartsLoop ==
    /\ EffectDue
    /\ isRunning /\ ~isPaused
    /\ effectDeps' = <<isRunning, isPaused>>
    /\ IterationProceeds
    /\ UNCHANGED <<objective, isRunning, maxIterations, mode, settings, sessionId, now>>

\* Cleanup (stopAgentLoop), then stopAgentLoop.
EffectStopsLoop ==
    /\ EffectDue
    /\ ~(isRunning /\ ~isPaused)
    /\ effectDeps' = <<isRunning, isPaused>>
    /\ agentLoopRef' = FALSE
    /\ UNCHANGED <<objective, tasks, executionLog, isRunning, isPaused,
                   currentIteration, maxIterations, mode, settings, sessionId,
                   calls, now, nextId>>

----------------------------------------------------------------------------
(* Operator commands (agentStore.ts, and the hook's startAgent). *)

\* Every suspended call learns that the operator intervened.
Interrupted(cs) == {[c EXCEPT !.interrupted = TRUE] : c \in cs}

setObjective(o) ==
    /\ objective' = o
    /\ UNCHANGED <<tasks, executionLog, isRunning, isPaused, currentIteration,
                   maxIterations, mode, settings, sessionId, agentLoopRef, effectDeps,
                   calls, now, nextId>>

RejectedMessage == "Please enter an objective first"

\* A variant that logs the error and starts the loop all the same.
StartRejected_Starts ==
    /\ ~Truthy(Trim(objective))
    /\ executionLog' = addLog(executionLog,
                              Entry("error", RejectedMessage, 0))
    /\ isRunning' = TRUE
    /\ isPaused' = FALSE
    /\ UNCHANGED <<objective, tasks, currentIteration, maxIterations, mode, settings,
                   sessionId, agentLoopRef, effectDeps, calls, now, nextId>>

\* The hook's startAgent with a blank objective: one error entry, no start.
StartRejected ==
    /\ ~Truthy(Trim(objective))
    /\ Cardinality({i \in 1..Len(executionLog) :
                        executionLog[i].message = RejectedMessage}) < MaxRejected
    /\ executionLog' = addLog(executionLog,
                              Entry("error", RejectedMessage, 0))
    /\ UNCHANGED <<objective, tasks, isRunning, isPaused, currentIteration,
                   maxIterations, mode, settings, sessionId, agentLoopRef, effectDeps,
                   calls, now, nextId>>

\* The hook's startAgent otherwise: store.startAgent().
startAgent ==
    /\ Truthy(Trim(objective))
    /\ isRunning' = TRUE
    /\ isPaused' = FALSE
    /\ UNCHANGED <<objective, tasks, executionLog, currentIteration, maxIterations,
                   mode, settings, sessionId, agentLoopRef, effectDeps, calls, now,
                   nextId>>

\* A variant that also sets the iteration counter back.
pauseAgent_ResetsCounter ==
    /\ isPaused' = TRUE
    /\ currentIteration' = 0
    /\ calls' = Interrupted(calls)
    /\ UNCHANGED <<objective, tasks, executionLog, isRunning, maxIterations, mode,
                   settings, sessionId, agentLoopRef, effectDeps, now, nextId>>

pauseAgent ==
    /\ isPaused' = TRUE
    /\ calls' = Interrupted(calls)
    /\ UNCHANGED <<objective, tasks, executionLog, isRunning, currentIteration,
                   maxIterations, mode, settings, sessionId, agentLoopRef, effectDeps,
                   now, nextId>>

resetAgent ==
    /\ objective' = ""
    /\ tasks' = <<>>
    /\ executionLog' = <<>>
    /\ isRunning' = FALSE
    /\ isPaused' = FALSE
    /\ currentIteration' = 0
    /\ sessionId' = now
    /\ calls' = Interrupted(calls)
    /\ UNCHANGED <<maxIterations, mode, settings, agentLoopRef, effectDeps, now, nextId>>

setMode(m) ==
    /\ mode' = m
    /\ UNCHANGED <<objective, tasks, executionLog, isRunning, isPaused,
                   currentIteration, maxIterations, settings, sessionId, agentLoopRef,
                   effectDeps, calls, now, nextId>>

\* updateSettings: settings: { ...state.settings, ...settings }
updateSettings(partial) ==
    /\ settings' = Merge(settings, partial)
    /\ UNCHANGED <<objective, tasks, executionLog, isRunning, isPaused,
                   currentIteration, maxIterations, mode, sessionId, agentLoopRef,
                   effectDeps, calls, now, nextId>>

\* Time passes.
ClockAdvances ==
    /\ now < MaxClock
    /\ now' = now + 1
    /\ UNCHANGED <<objective, tasks, executionLog, isRunning, isPaused,
                   currentIteration, maxIterations, mode, settings, sessionId,
                   agentLoopRef, effectDeps, calls, nextId>>

----------------------------------------------------------------------------
(* The store as created, before the hook's first effect has anything to do. *)
(* The store creates maxIterations as 20 and nothing in the store changes   *)
(* it; the model draws the budget from 1 .. MaxBudget so that a run can     *)
(* exhaust it.                                                              *)
Init ==
    /\ objective = ""
    /\ tasks = <<>>
    /\ executionLog = <<>>
    /\ isRunning = FALSE
    /\ isPaused = FALSE
    /\ currentIteration = 0
    /\ maxIterations \in 1..MaxBudget
    /\ mode = "simulated"
    /\ settings = [apiKey |-> "", maxIterations |-> maxIterations]
    /\ now = 0
    /\ sessionId = 0
    /\ agentLoopRef = FALSE
    /\ effectDeps = <<FALSE, FALSE>>
    /\ calls = {}
    /\ nextId = 1

\* The loop and the operator's start, pause, reset and objective commands,
\* with the clock standing still and the settings as created.
Next ==
    \/ \E o \in Objectives : setObjective(o)
    \/ startAgent
    \/ pauseAgent
    \/ resetAgent
    \/ EffectStartsLoop
    \/ EffectStopsLoop
    \/ TimerStops
    \/ TimerTick
    \/ \E c \in calls : ExecutorResolves(c)
    \/ \E c \in calls : ExecutorFails(c)

Spec == Init /\ [][Next]_vars

\* The same with time passing between the steps.
NextClock == Next \/ ClockAdvances

SpecClock == Init /\ [][NextClock]_vars

\* What the operator may type: the objectives above and a blank one.
Typed == Objectives \cup {" "}

\* The loop with the operator typing any of these and pressing start on
\* whatever the objective is, so that the hook rejects some starts; no
\* executor call fails.
NextStart ==
    \/ \E o \in Typed : setObjective(o)
    \/ StartRejected
    \/ startAgent
    \/ pauseAgent
    \/ resetAgent
    \/ EffectStartsLoop
    \/ EffectStopsLoop
    \/ TimerStops
    \/ TimerTick
    \/ \E c \in calls : ExecutorResolves(c)

SpecStart == Init /\ [][NextStart]_vars

\* What the operator may enter in the settings form and pass to
\* updateSettings: an API key, or a Max Iterations value.
ApiKeys == {"", "sk-key"}

SettingsUpdates ==
    {[apiKey |-> k] : k \in ApiKeys} \cup {[maxIterations |-> n] : n \in 1..MaxBudget}

\* The operator fills in the objective, the mode and the settings while the
\* loop is off, presses start and leaves the loop alone.
NextSettings ==
    \/ \E o \in Objectives : ~isRunning /\ setObjective(o)
    \/ \E m \in {"simulated", "ai"} : ~isRunning /\ setMode(m)
    \/ \E partial \in SettingsUpdates : ~isRunning /\ updateSettings(partial)
    \/ ~isRunning /\ startAgent
    \/ EffectStartsLoop
    \/ EffectStopsLoop
    \/ TimerTick
    \/ \E c \in calls : ExecutorResolves(c)
    \/ \E c \in calls : ExecutorFails(c)

SpecSettings == Init /\ [][NextSettings]_vars

\* The store once the first iteration of a run has seeded a batch of up to
\* MaxBatch tasks, the budget being the least one or one that outlasts the
\* batch.  The generator's ids are used up to the batch's last one, so a
\* batch of more than MaxId tasks is never added to.
InitBatch ==
    /\ objective = "Write a blog post"
    /\ \E n \in 1..MaxBatch :
        /\ tasks = generateInitialTasks(n, 1)
        /\ executionLog = <<Entry("info", "Generated initial tasks", n)>>
        /\ nextId = n + 1
    /\ isRunning = TRUE
    /\ isPaused = FALSE
    /\ currentIteration = 0
    /\ maxIterations \in {1, MaxBatch + 1}
    /\ mode = "simulated"
    /\ settings = [apiKey |-> "", maxIterations |-> maxIterations]
    /\ now = 0
    /\ sessionId = 0
    /\ agentLoopRef = TRUE
    /\ effectDeps = <<TRUE, FALSE>>
    /\ calls = {}

SpecBatch == InitBatch /\ [][Next]_vars

\* An undisturbed run: the operator types objectives and presses start while
\* the loop is off and then leaves it alone, and no executor call fails.
NextUndisturbed ==
    \/ \E o \in Objectives : ~isRunning /\ setObjective(o)
    \/ ~isRunning /\ startAgent
    \/ EffectStartsLoop
    \/ EffectStopsLoop
    \/ TimerTick
    \/ \E c \in calls : ExecutorResolves(c)

\* React runs a due effect, the interval keeps firing while it is set, and
\* an awaited executor call resolves.
SpecUndisturbed ==
    /\ Init
    /\ [][NextUndisturbed]_vars
    /\ WF_vars(EffectStartsLoop)
    /\ WF_vars(EffectStopsLoop)
    /\ WF_vars(TimerTick)
    /\ WF_vars(\E c \in calls : ExecutorResolves(c))

\* An undisturbed run in which executor calls may fail as well.
NextUnattended ==
    \/ \E o \in Objectives : ~isRunning /\ setObjective(o)
    \/ ~isRunning /\ startAgent
    \/ EffectStartsLoop
    \/ EffectStopsLoop
    \/ TimerTick
    \/ \E c \in calls : ExecutorResolves(c)
    \/ \E c \in calls : ExecutorFails(c)

\* React runs a due effect, the interval keeps firing while it is set, and
\* an awaited executor call resolves or fails.
SpecUnattended ==
    /\ Init
    /\ [][NextUnattended]_vars
    /\ WF_vars(EffectStartsLoop)
    /\ WF_vars(EffectStopsLoop)
    /\ WF_vars(TimerTick)
    /\ WF_vars(\E c \in calls : ExecutorResolves(c) \/ ExecutorFails(c))

----------------------------------------------------------------------------
(* Vocabulary of the claims. *)

Running(ts) == {i \in 1..Len(ts) : ts[i].status = "running"}

\* This step takes some task from 'pending' to 'running'.
TaskStarted ==
    \E i \in 1..Len(tasks) :
        /\ i <= Len(tasks')
        /\ tasks'[i].id = tasks[i].id
        /\ tasks[i].status = "pending"
        /\ tasks'[i].status = "running"

\* This step is an invocation of executeAgentIteration.
TickStep == TimerStops \/ TimerTick \/ EffectStartsLoop

\* This step is the resumption of a suspended call.
Resumed(c) == c \in calls /\ c \notin calls'

CompletionEntry == Entry("milestone", CompletionMessage, 0)

----------------------------------------------------------------------------
(* C1: in every reachable state at most one task of the list has status    *)
(* 'running'.                                                              *)
C1_AtMostOneRunning == Cardinality(Running(tasks)) <= 1

(* C2: ticks are serialized: no step starts a task while an executor call  *)
(* of an earlier tick is still unresolved.                                 *)
C2_TicksSerialized == [][TaskStarted => calls = {}]_vars

(* C3: when a call resolves after the operator paused or reset while it    *)
(* was in flight, the resumption changes neither the task list nor the log.*)
C3_StaleResultDiscarded ==
    [][\A c \in calls :
         (Resumed(c) /\ c.interrupted) =>
             (tasks' = tasks /\ executionLog' = executionLog)]_vars

(* C4: a task leaves 'pending' only in a state where every task of the     *)
(* list that its dependencies name is 'completed'.                         *)
C4_DependenciesRespected ==
    [][\A i \in 1..Len(tasks) :
         ( /\ i <= Len(tasks')
           /\ tasks'[i].id = tasks[i].id
           /\ tasks[i].status = "pending"
           /\ tasks'[i].status # "pending" ) =>
             \A j \in 1..Len(tasks) :
                 tasks[j].id \in tasks[i].dependencies =>
                     tasks[j].status = "completed"]_vars

\* A task that depends on a task of the list has been started.
C4_Witness ==
    \E i, j \in 1..Len(tasks) :
        /\ tasks[i].status = "running"
        /\ tasks[j].id \in tasks[i].dependencies

(* C5: no step starts a task when currentIteration >= maxIterations, and   *)
(* currentIteration never exceeds maxIterations.                           *)
C5_BudgetRespected ==
    /\ [](currentIteration <= maxIterations)
    /\ [][TaskStarted => currentIteration < maxIterations]_vars

\* The loop halted for budget with a task still pending, was started again
\* and halted again.
C5_Witness ==
    /\ Cardinality({i \in 1..Len(executionLog) :
                        executionLog[i].message = BudgetMessage}) = 2
    /\ currentIteration = maxIterations
    /\ isPaused
    /\ \E i \in 1..Len(tasks) : tasks[i].status = "pending"

\* The status changes a task may make in one step.
StatusMoves ==
    {<<st, st>> : st \in {"pending", "running", "completed", "failed"}}
        \cup {<<"pending", "running">>, <<"running", "completed">>,
              <<"running", "failed">>}

(* C6: a task's status only moves pending -> running -> completed or       *)
(* failed, and a completed or failed task keeps its status for as long as  *)
(* it is in the list; only a reset, which empties the list, removes it.    *)
C6_StatusTransitions ==
    [][\/ tasks' = <<>> /\ executionLog' = <<>> /\ currentIteration' = 0
       \/ \A i \in 1..Len(tasks) :
            /\ i <= Len(tasks')
            /\ tasks'[i].id = tasks[i].id
            /\ <<tasks[i].status, tasks'[i].status>> \in StatusMoves]_vars

\* A failed task and a completed one, with the loop still going.
C6_Witness ==
    /\ \E i \in 1..Len(tasks) : tasks[i].status = "failed"
    /\ \E i \in 1..Len(tasks) : tasks[i].status = "completed"
    /\ isRunning /\ ~isPaused /\ agentLoopRef

(* C7: a task whose executor call failed has status 'failed' and holds the *)
(* failure reason in its result field.                                     *)
C7_FailedTaskHoldsReason ==
    \A i \in 1..Len(tasks) :
        tasks[i].status = "failed" => tasks[i].result = ErrorDetail

\* This step is the catch block of some suspended call.
ExecutorFailed == \E c \in calls : ExecutorFails(c)

\* The failing step leaves isRunning and isPaused alone and appends exactly
\* one entry, of type 'error'.
FailureLeavesLoopGoing ==
    ExecutorFailed =>
        /\ isRunning' = isRunning
        /\ isPaused' = isPaused
        /\ Len(executionLog') = Len(executionLog) + 1
        /\ SubSeq(executionLog', 1, Len(executionLog)) = executionLog
        /\ executionLog'[Len(executionLog')].type = "error"

HasFailed(ts) == \E i \in 1..Len(ts) : ts[i].status = "failed"

\* The loop is on, and past the budget check.
LoopActive == isRunning /\ ~isPaused /\ currentIteration < maxIterations

\* The task this step starts is the one selection yields.
NextTaskStarted ==
    /\ TaskStarted
    /\ tasks' = updateTask(tasks, NextTask(tasks).id, [status |-> "running"])

(* C8 as stated: an executor failure never stops the loop: the failing     *)
(* step leaves isRunning and isPaused unchanged and appends exactly one    *)
(* 'error' entry, and a tick that follows a failure starts the next        *)
(* eligible pending task if there is one.                                  *)
C8_FailureNeverStopsLoop ==
    /\ [][FailureLeavesLoopGoing]_vars
    /\ [][(TickStep /\ HasFailed(tasks) /\ HasNextTask(tasks)) => NextTaskStarted]_vars

(* C8 as amended: the same, the tick starting the next eligible pending    *)
(* task provided the loop is still running, not paused and within budget.  *)
C8_FailureNeverStopsActiveLoop ==
    /\ [][FailureLeavesLoopGoing]_vars
    /\ [][(TickStep /\ HasFailed(tasks) /\ HasNextTask(tasks) /\ LoopActive)
            => NextTaskStarted]_vars

\* A task failed, its error was logged, and a later tick started a task.
C8_Witness ==
    /\ HasFailed(tasks)
    /\ \E i, j \in 1..Len(executionLog) :
        /\ i < j
        /\ executionLog[i].type = "error"
        /\ executionLog[j].type = "task"
    /\ isRunning /\ ~isPaused

\* This step is a reset of a session that holds tasks (no other step empties
\* a task list).
ResetStep == resetAgent /\ tasks # <<>>

(* C9: right after reset, in whatever state it is invoked (a task may be   *)
(* executing), tasks and executionLog are empty, currentIteration is 0,    *)
(* isRunning and isPaused are false, and sessionId differs from the one    *)
(* before the reset.                                                       *)
C9_ResetStartsNewSession ==
    [][ResetStep =>
         /\ tasks' = <<>>
         /\ executionLog' = <<>>
         /\ currentIteration' = 0
         /\ isRunning' = FALSE
         /\ isPaused' = FALSE
         /\ sessionId' # sessionId]_vars

(* C10: whenever the loop declares completion (appends the 'All tasks      *)
(* completed' entry and pauses itself), every task of the list is then     *)
(* completed or failed, at least one is completed, none pending or running.*)
C10_CompletionDeclaredWhenResolved ==
    [][executionLog' = Append(executionLog, CompletionEntry) =>
         /\ isPaused'
         /\ \A i \in 1..Len(tasks') : tasks'[i].status \in {"completed", "failed"}
         /\ \E i \in 1..Len(tasks') : tasks'[i].status = "completed"
         /\ \A i \in 1..Len(tasks') : tasks'[i].status \notin {"pending", "running"}]_vars

\* Completion was just declared, over a list holding a failed task as well.
C10_Witness ==
    /\ executionLog # <<>>
    /\ executionLog[Len(executionLog)] = CompletionEntry
    /\ isPaused
    /\ HasFailed(tasks)

----------------------------------------------------------------------------
\* Stopped-Complete: the completion milestone is in the log, the loop is
\* paused, a task is completed and none is pending.
StoppedComplete ==
    /\ \E i \in 1..Len(executionLog) : executionLog[i] = CompletionEntry
    /\ isPaused
    /\ Count(tasks, "completed") >= 1
    /\ Count(tasks, "pending") = 0

\* The tasks created so far (no reset takes place in an undisturbed run).
TasksCreated == nextId - 1

(* C11 as stated: in simulated mode, started with a non-empty objective,   *)
(* every call resolving successfully, follow-ups eventually empty, no      *)
(* pause or reset, and at most maxIterations tasks ever created, the loop  *)
(* eventually reaches Stopped-Complete under fair ticking.                 *)
C11_EventuallyComplete ==
    (<>isRunning /\ [](TasksCreated <= maxIterations)) => <>StoppedComplete

(* C11 as amended: the same with fewer than maxIterations tasks ever       *)
(* created.                                                                *)
C11_EventuallyCompleteBelowBudget ==
    (<>isRunning /\ [](TasksCreated < maxIterations)) => <>StoppedComplete

\* Stopped-Complete after two tasks, one of them a follow-up, with budget
\* to spare.
C11_Witness ==
    /\ StoppedComplete
    /\ Len(tasks) = 2
    /\ TasksCreated < maxIterations
    /\ \E i \in 1..Len(executionLog) :
          executionLog[i].message = "Generated follow-up task(s)"
    /\ mode = "simulated"

----------------------------------------------------------------------------
\* The session's total task count never changed: no follow-up was appended.
FixedTaskCount ==
    \A i \in 1..Len(executionLog) :
        executionLog[i].message # "Generated follow-up task(s)"

MilestoneEntries(p) ==
    {i \in 1..Len(executionLog) : executionLog[i] = Entry("milestone", "Milestone", p)}

(* C12: within one session whose total task count stays fixed, the         *)
(* completion-ratio milestone entry of each threshold 25, 50, 75 and 100   *)
(* is in the log at most once, whatever the interleaving of ticks and      *)
(* executor resolutions.                                                   *)
C12_MilestoneOncePerSession ==
    FixedTaskCount =>
        \A p \in {25, 50, 75, 100} : Cardinality(MilestoneEntries(p)) <= 1

----------------------------------------------------------------------------
\* This step is the successful resumption of some suspended call.
ExecutorResolved == \E c \in calls : ExecutorResolves(c)

\* This step appends the milestone entry of threshold p.
MilestoneAppended(p) ==
    \E i \in (Len(executionLog) + 1)..Len(executionLog') :
        executionLog'[i] = Entry("milestone", "Milestone", p)

\* completed / total of the list ts is at least p percent.
RatioAtLeast(ts, p) == Len(ts) > 0 /\ Count(ts, "completed") * 100 >= p * Len(ts)

\* The ratio was below p before this step and is at least p after it, the
\* completed task marked and its follow-ups appended.
Crossed(p) == ~RatioAtLeast(tasks, p) /\ RatioAtLeast(tasks', p)

(* C13: after each successful completion, the milestone entry of threshold *)
(* p in 25, 50, 75, 100 is logged exactly when the completion ratio of the *)
(* list as it stands after the task was marked completed and its follow-   *)
(* ups appended has crossed p with this completion.                        *)
C13_MilestoneWhenCrossed ==
    [][ExecutorResolved =>
         \A p \in {25, 50, 75, 100} : MilestoneAppended(p) <=> Crossed(p)]_vars

----------------------------------------------------------------------------
\* The operator presses start: the hook's startAgent, whichever way it goes.
StartPressed == StartRejected \/ startAgent

(* C14: startAgent with an empty or whitespace-only objective is rejected: *)
(* isRunning stays as it was (false when the loop was off), tasks and      *)
(* currentIteration are unchanged, exactly one entry, of type 'error', is  *)
(* appended to the log, and nothing that makes a tick run changes: not the *)
(* flags, the interval, the effect's dependencies or the suspended calls.  *)
C14_BlankStartRejected ==
    [][(StartPressed /\ Blank(objective)) =>
         /\ isRunning' = isRunning
         /\ tasks' = tasks
         /\ currentIteration' = currentIteration
         /\ Len(executionLog') = Len(executionLog) + 1
         /\ SubSeq(executionLog', 1, Len(executionLog)) = executionLog
         /\ executionLog'[Len(executionLog')].type = "error"
         /\ UNCHANGED <<isPaused, agentLoopRef, effectDeps, calls, objective>>]_vars

\* A start on a whitespace-only objective was just rejected with the loop
\* off and nothing seeded.
C14_Witness ==
    /\ objective = " "
    /\ executionLog # <<>>
    /\ executionLog[Len(executionLog)].message = RejectedMessage
    /\ ~isRunning
    /\ tasks = <<>>
    /\ currentIteration = 0

----------------------------------------------------------------------------
(* C15: setObjective is only effective while the loop is idle: a step      *)
(* taken while isRunning is true, and which leaves it true, leaves the     *)
(* objective unchanged, so the objective does not change during a run.     *)
C15_ObjectiveFixedWhileRunning ==
    [][(isRunning /\ isRunning') => objective' = objective]_vars

----------------------------------------------------------------------------
\* s is an initial part of t.
IsPrefix(s, t) == Len(s) <= Len(t) /\ SubSeq(t, 1, Len(s)) = s

\* What a reset leaves of the session.
SessionCleared ==
    /\ executionLog' = <<>>
    /\ tasks' = <<>>
    /\ objective' = ""
    /\ currentIteration' = 0
    /\ ~isRunning' /\ ~isPaused'

(* C16: the execution log is append-only between resets: every step either *)
(* leaves it unchanged or extends it at the end, so each earlier log is a  *)
(* prefix of every later log of the session; only a reset empties it.      *)
C16_LogAppendOnly ==
    [][IsPrefix(executionLog, executionLog') \/ SessionCleared]_vars

\* A reset emptied a log and a call then still in flight has since appended
\* its entry to the new one.
C16_Witness ==
    /\ tasks = <<>>
    /\ Len(executionLog) = 1
    /\ executionLog[1].type = "error"
    /\ nextId > 1

----------------------------------------------------------------------------
(* C17: the budget the loop enforces is the configured Max Iterations      *)
(* setting: no step starts a task once as many tasks were started in the   *)
(* session as settings.maxIterations allows.                               *)
C17_BudgetIsTheSetting ==
    [][TaskStarted => currentIteration < settings.maxIterations]_vars

----------------------------------------------------------------------------
\* The operator's pause, and the resume: a start while the loop is paused.
PauseCommand == pauseAgent

ResumeCommand == isPaused /\ startAgent

\* The store's fields other than the two flags.
SessionData ==
    <<objective, tasks, executionLog, currentIteration, maxIterations, mode,
      settings, sessionId>>

(* C18: the operator's pause and resume commands change only the flags     *)
(* isRunning and isPaused: tasks (contents and order), currentIteration    *)
(* and maxIterations are the same right before and right after the         *)
(* command, and the iteration the effect runs after a resume selects from  *)
(* the task list as the store then holds it.                               *)
C18_PauseResumeKeepSession ==
    /\ [][(PauseCommand \/ ResumeCommand) => UNCHANGED SessionData]_vars
    /\ [][(EffectStartsLoop /\ ~BudgetReached /\ HasNextTask(tasks))
            => NextTaskStarted]_vars

\* A call was in flight when the operator paused, its task is still in the
\* list, the loop was resumed and has since started another task.
C18_Witness ==
    /\ isRunning /\ ~isPaused
    /\ \E c \in calls : c.interrupted /\ c.task.id \in Ids(tasks)
    /\ \E c \in calls : ~c.interrupted
    /\ currentIteration = 2

----------------------------------------------------------------------------
\* updateTask and completeTask with the id `taskId` on the list ts: the
\* length and order stay, every task with another id stays as it is, and a
\* task with that id takes the new fields and keeps the others.
OnlyMatchingTaskChanges(ts, taskId) ==
    LET updated == updateTask(ts, taskId, [status |-> "failed"])
        completed == completeTask(ts, taskId, Content)
    IN  /\ Len(updated) = Len(ts)
        /\ Len(completed) = Len(ts)
        /\ \A i \in 1..Len(ts) :
              IF ts[i].id = taskId
              THEN /\ updated[i] = [ts[i] EXCEPT !.status = "failed"]
                   /\ completed[i] = [ts[i] EXCEPT !.status = "completed",
                                                    !.result = Content]
              ELSE updated[i] = ts[i] /\ completed[i] = ts[i]
        /\ taskId \notin Ids(ts) => (updated = ts /\ completed = ts)

(* C19: updateTask and completeTask called with an id that is not in the   *)
(* task list (a stale id after a reset, say) leave the task sequence       *)
(* unchanged in length, order and contents; with an id that is in the list *)
(* they change the matching task only.                                     *)
C19_AbsentIdIsNoOp ==
    \A taskId \in 1..MaxId : OnlyMatchingTaskChanges(tasks, taskId)

\* The call of a task that a reset removed has failed since, in a new
\* session whose tasks its updateTask left as they were.
C19_Witness ==
    /\ tasks # <<>>
    /\ \A i \in 1..Len(tasks) : tasks[i].status = "pending"
    /\ calls = {}
    /\ \E i \in 1..Len(executionLog) : executionLog[i].message = "Failed"

----------------------------------------------------------------------------
\* t is pending and each of its dependencies is a completed task of ts.
DependenciesCompleted(t, ts) ==
    /\ t.status = "pending"
    /\ \A depId \in t.dependencies :
          \E j \in 1..Len(ts) : ts[j].id = depId /\ ts[j].status = "completed"

\* This step starts the task at position i of the list.
StartedAt(i) ==
    /\ i <= Len(tasks')
    /\ tasks'[i].id = tasks[i].id
    /\ tasks[i].status = "pending"
    /\ tasks'[i].status = "running"

(* C20: the task a tick starts is a pending task whose dependencies are    *)
(* all completed tasks of the list, and no other such task has a higher    *)
(* priority, or the same priority and an earlier place in the list; a task *)
(* with a dependency id that matches no completed task is never started.   *)
C20_StartsBestEligible ==
    [][\A i \in 1..Len(tasks) :
         StartedAt(i) =>
             /\ DependenciesCompleted(tasks[i], tasks)
             /\ \A j \in 1..Len(tasks) :
                   DependenciesCompleted(tasks[j], tasks) =>
                       \/ tasks[j].priority < tasks[i].priority
                       \/ tasks[j].priority = tasks[i].priority /\ i <= j]_vars

----------------------------------------------------------------------------
\* The tasks of the list that have left 'pending'.
LeftPending(ts) == {i \in 1..Len(ts) : ts[i].status # "pending"}

\* This step is the loop halting for budget.
BudgetHalt ==
    executionLog' =
        Append(executionLog, Entry("milestone", BudgetMessage, maxIterations))

(* C21: currentIteration changes only by +1, when a tick starts a task,    *)
(* and to 0, on reset, so in every reachable state it equals the number of *)
(* tasks of the current session that have left 'pending'; when the loop    *)
(* halts for budget exactly maxIterations tasks have been started and      *)
(* every other task is still pending.                                      *)
C21_IterationCountsStartedTasks ==
    /\ [](currentIteration = Cardinality(LeftPending(tasks)))
    /\ [][\/ currentIteration' = currentIteration
          \/ (currentIteration' = currentIteration + 1 /\ TickStep /\ TaskStarted)
          \/ (currentIteration' = 0 /\ SessionCleared)]_vars
    /\ [][BudgetHalt =>
             /\ isPaused'
             /\ Cardinality(LeftPending(tasks')) = maxIterations]_vars

\* The loop has just halted for budget after two starts, one task completed,
\* one failed and a third still pending.
C21_Witness ==
    /\ executionLog # <<>>
    /\ executionLog[Len(executionLog)].message = BudgetMessage
    /\ currentIteration = 2
    /\ Count(tasks, "completed") = 1
    /\ Count(tasks, "failed") = 1
    /\ Count(tasks, "pending") = 1

----------------------------------------------------------------------------
\* Some task of ts is pending and each pending one is blocked by a
\* dependency that is in the list and not completed.
Starved(ts) ==
    /\ \E i \in 1..Len(ts) : ts[i].status = "pending"
    /\ \A i \in 1..Len(ts) :
          ts[i].status = "pending" =>
              \E j \in 1..Len(ts) :
                  /\ ts[j].id \in ts[i].dependencies
                  /\ ts[j].status # "completed"

\* The task at position i is pending and depends on a failed task.
DependsOnFailed(ts, i) ==
    /\ ts[i].status = "pending"
    /\ \E j \in 1..Len(ts) :
          ts[j].id \in ts[i].dependencies /\ ts[j].status = "failed"

\* No step but a reset takes a task that depends on a failed one out of
\* 'pending'.
BlockedByFailedStaysPending ==
    \A i \in 1..Len(tasks) :
        DependsOnFailed(tasks, i) =>
            \/ SessionCleared
            \/ i <= Len(tasks') /\ tasks'[i] = tasks[i]

\* What a starved tick is to leave alone.
LoopState == <<tasks, executionLog, currentIteration, isRunning, isPaused>>

(* C22 as stated: starvation is a no-op, not a stop: a tick that finds     *)
(* pending tasks all blocked by non-completed dependencies changes neither *)
(* tasks, log, currentIteration, isRunning nor isPaused, and a task that   *)
(* depends on a failed task stays 'pending' in every later state until     *)
(* reset.                                                                  *)
C22_StarvationIsNoOp ==
    /\ [][(TickStep /\ Starved(tasks)) => UNCHANGED LoopState]_vars
    /\ [][BlockedByFailedStaysPending]_vars

(* C22 as amended: the same for a tick that finds the budget not yet       *)
(* reached; at the budget the tick halts for budget, starved or not.       *)
C22_StarvationIsNoOpWithinBudget ==
    /\ [][(TickStep /\ Starved(tasks) /\ ~BudgetReached)
            => UNCHANGED LoopState]_vars
    /\ [][BlockedByFailedStaysPending]_vars

\* The loop is on and within budget, nothing is in flight, and the one
\* pending task depends on a failed one: every tick from here is starved.
C22_Witness ==
    /\ isRunning /\ ~isPaused /\ agentLoopRef
    /\ ~BudgetReached
    /\ calls = {}
    /\ Starved(tasks)
    /\ \E i \in 1..Len(tasks) : DependsOnFailed(tasks, i)
    /\ Count(tasks, "completed") = 1

----------------------------------------------------------------------------
\* The queue is exhausted while the loop is running: the list holds tasks,
\* none of them pending or running.
QueueExhausted ==
    /\ isRunning /\ ~isPaused
    /\ tasks # <<>>
    /\ \A i \in 1..Len(tasks) : tasks[i].status \in {"completed", "failed"}

(* C23: once the queue is exhausted while the loop is running, under fair  *)
(* ticking the loop eventually halts by pausing itself, also when every    *)
(* task has failed and none completed.                                     *)
C23_ExhaustedQueueHalts == QueueExhausted ~> isPaused

----------------------------------------------------------------------------
(* C24: executor choice is a pure dispatch on mode: whenever a tick starts *)
(* a task while mode is 'ai' the task is executed by the delegated         *)
(* executor, and the simulated executor is used only when mode is          *)
(* 'simulated'.                                                            *)
C24_ExecutorFollowsMode ==
    [][TaskStarted =>
         \A c \in calls' \ calls :
             /\ mode = "ai" => c.executor = "executeTaskWithAI"
             /\ c.executor = "simulateTaskExecution" => mode = "simulated"]_vars

----------------------------------------------------------------------------
\* The seeding entries of the session's log.
SeedingEntries ==
    {i \in 1..Len(executionLog) : executionLog[i].message = "Generated initial tasks"}

\* A tick of the running loop that finds the list empty and an objective
\* appends pending tasks and one 'info' entry with their count, starts no
\* task and leaves the iteration counter alone.
FirstTickSeeds ==
    (TickStep /\ isRunning /\ ~isPaused /\ tasks = <<>> /\ ~Blank(objective)) =>
        /\ tasks' # <<>>
        /\ \A i \in 1..Len(tasks') : tasks'[i].status = "pending"
        /\ executionLog' = Append(executionLog,
                                   Entry("info", "Generated initial tasks", Len(tasks')))
        /\ currentIteration' = currentIteration
        /\ calls' = calls

\* In a started session, the resumption of a call whose task is of a
\* session a reset has ended adds no task to the list.
NoTaskFromEarlierSession ==
    \A c \in calls :
        (isRunning /\ ExecutorResolves(c) /\ c.task.id \notin Ids(tasks)) => tasks' = tasks

(* C25: every session started with a non-empty objective is seeded from    *)
(* that objective exactly once: the first tick after start, finding the    *)
(* list empty, appends the initial tasks and one 'info' entry with their   *)
(* count without starting a task or consuming an iteration; the tasks of   *)
(* a started session belong to a session seeded exactly once, and no task  *)
(* derived from a previous session is ever in the list of a session        *)
(* started after a reset.                                                  *)
C25_SessionSeededOnce ==
    /\ [][FirstTickSeeds]_vars
    /\ []((isRunning /\ tasks # <<>>) => Cardinality(SeedingEntries) = 1)
    /\ [][NoTaskFromEarlierSession]_vars

====
